---- MODULE Spec2Model ----
(***************************************************************************)
(* Model of modem-kick.c: a GLib main-loop daemon that tracks the modems   *)
(* exposed by ModemManager, records since when each one is idle/denied and *)
(* kicks (disable, low-power, enable) the ones stuck for too long.         *)
(*                                                                         *)
(* Every action below is one callback dispatched by the main loop; the     *)
(* callbacks run to completion, so each is atomic.  The production build   *)
(* (DEBUG undefined) is modelled.  g_assert is the default, aborting one.  *)
(***************************************************************************)
EXTENDS Integers, FiniteSets, Sequences, TLC

\* ------------------------------------------------------------------ bounds

\* Object paths the service can expose.
Paths == {"/Modem/0", "/Modem/1"}

\* Number of MMObject proxies of one path alive at a time: the one the manager
\* proxy holds, and removed ones that calls in flight keep alive.
MaxLive == 1

\* Number of one-microsecond clock advances and of advances by the
\* kick interval that a behaviour may contain.
MaxFine == 1
MaxCoarse == 1

\* ------------------------------------------------------- program constants

KICK_INTERVAL_SECONDS == 605
G_USEC_PER_SEC == 1000000
MAX_TRIES == 3

KickInterval == KICK_INTERVAL_SECONDS * G_USEC_PER_SEC

\* OpState
MODEM_OP_STATE_NONE == "NONE"
MODEM_OP_STATE_DISABLE == "DISABLE"
MODEM_OP_STATE_LOW_POWER == "LOW_POWER"
MODEM_OP_STATE_ENABLE == "ENABLE"
MODEM_OP_STATE_FINISH == "FINISH"

OpState == {MODEM_OP_STATE_NONE, MODEM_OP_STATE_DISABLE, MODEM_OP_STATE_LOW_POWER,
            MODEM_OP_STATE_ENABLE, MODEM_OP_STATE_FINISH}

\* MMModem3gppRegistrationState, as far as the daemon tells the values apart.
RegStates == {"idle", "denied", "home"}

\* What an MMObject exposes: everything, or one of the three things
\* handle_object_added asks for is missing.
Ifaces == {"ok", "no_modem", "no_port", "no_3gpp"}

\* The external calls, and the state of the GCancellable each was issued with:
\* the modem context's current one, one that has been cancelled, or NULL.
CallKinds == {"disable", "low_power", "enable"}
Toks == {"cur", "old", "null"}
CallTypes == [kind : CallKinds, tok : Toks]

\* MMObject proxies.  An object is named by its path and a slot; a slot is
\* free again once its object is finalized.
Obj == Paths \X (1..MaxLive)
NoObj == <<"none", 0>>
PathOf(o) == o[1]

\* Besides the fields of its ModemContext an object carries "issued", a history
\* of the kick operation in place: the external calls it has issued so far.
VARIABLES
    phase,     \* "bus_get", "running", "quit" (main loop left) or "aborted" (g_assert)
    owner,     \* the service owns its bus name
    mm,        \* ctx->mm: "null", "pending" (mm_manager_new in flight) or "ready"
    mm_objs,   \* the objects the manager proxy holds (one reference each)
    modems,    \* ctx->modems: path -> object (one reference each) or NoObj
    objs,      \* per object: its interfaces, its ModemContext, its timers and calls
    now,       \* g_get_monotonic_time ()
    exposed,   \* the object paths the service exposes over its life
    event      \* the callback that ran last

vars == <<phase, owner, mm, mm_objs, modems, objs, now, exposed, event>>

\* An object that does not exist (never created, or finalized).
Blank ==
    [reg_state |-> "home", ctx |-> FALSE,
     timestamp |-> 0, cancellable |-> FALSE, op_state |-> MODEM_OP_STATE_NONE,
     next_id |-> 0, tries |-> 0, issued |-> 0,
     timers |-> {}, calls |-> [k \in CallKinds |-> [t \in Toks |-> 0]], abort |-> FALSE]

\* The number of external calls in flight for an object.
NCallsOf(m, kind) == m.calls[kind]["cur"] + m.calls[kind]["old"] + m.calls[kind]["null"]
NCalls(m) == NCallsOf(m, "disable") + NCallsOf(m, "low_power") + NCallsOf(m, "enable")

\* The calls in flight whose cancellable has been cancelled: each completes with
\* G_IO_ERROR_CANCELLED from an idle source GDBus attaches at the cancellation.
NStale(m) == m.calls["disable"]["old"] + m.calls["low_power"]["old"] + m.calls["enable"]["old"]

\* The objects in the registry.
Tracked == {modems[p] : p \in Paths} \ {NoObj}

\* References held on an object: the registry's, the manager proxy's, and one per
\* external call in flight (g_object_ref at the call, g_object_unref in its callback).
RefCount(o, reg, mgr, m) ==
    (IF o \in reg THEN 1 ELSE 0) + (IF o \in mgr THEN 1 ELSE 0) + NCalls(m)

\* ------------------------------------------------------------ ModemContext

\* modem_context_new: a zeroed context for an object.
modem_context_new(m) ==
    [m EXCEPT !.ctx = TRUE, !.timestamp = 0, !.cancellable = FALSE,
              !.op_state = MODEM_OP_STATE_NONE, !.next_id = 0, !.tries = 0,
              !.issued = 0]

\* g_cancellable_cancel: the calls issued with the context's cancellable are now
\* calls of a cancelled one (nothing happens for a NULL cancellable).
g_cancellable_cancel(m) ==
    IF m.cancellable
    THEN [m EXCEPT !.calls = [k \in CallKinds |->
              [m.calls[k] EXCEPT !["cur"] = 0, !["old"] = @ + m.calls[k]["cur"]]]]
    ELSE m

\* g_source_remove (id): the source is destroyed and will not be dispatched.
g_source_remove(m, id) == [m EXCEPT !.timers = @ \ {id}]

\* Mutant: the pending source is forgotten, never removed.
modem_context_cancel_op_leak(m) ==
    LET m1 == [m EXCEPT !.op_state = MODEM_OP_STATE_NONE]
        m2 == [g_cancellable_cancel(m1) EXCEPT !.cancellable = FALSE]
    IN [m2 EXCEPT !.next_id = 0, !.tries = 0, !.issued = 0]

\* Mutant: dropping the operation also forgets since when the modem is stuck.
modem_context_cancel_op_unstick(m) ==
    LET m1 == [m EXCEPT !.op_state = MODEM_OP_STATE_NONE]
        m2 == [g_cancellable_cancel(m1) EXCEPT !.cancellable = FALSE]
        m3 == IF m2.next_id # 0 THEN g_source_remove(m2, m2.next_id) ELSE m2
    IN [m3 EXCEPT !.next_id = 0, !.tries = 0, !.issued = 0, !.timestamp = 0]

\* modem_context_cancel_op (the operation is dropped, and its history with it)
modem_context_cancel_op(m) ==
    LET m1 == [m EXCEPT !.op_state = MODEM_OP_STATE_NONE]
        m2 == [g_cancellable_cancel(m1) EXCEPT !.cancellable = FALSE]
        m3 == IF m2.next_id # 0 THEN g_source_remove(m2, m2.next_id) ELSE m2
    IN [m3 EXCEPT !.next_id = 0, !.tries = 0, !.issued = 0]

\* Mutant: the context is freed with its timer still attached.
modem_context_free_leak(m) == [m EXCEPT !.ctx = FALSE, !.timestamp = 0]

\* modem_context_free: run when the object is finalized (the context is the
\* object's "modem-context" data, with modem_context_free as its destroy notify).
modem_context_free(m) ==
    [modem_context_cancel_op(m) EXCEPT !.ctx = FALSE, !.timestamp = 0]

\* Mutant: a state other than idle/denied leaves the timestamp alone.
modem_registration_changed_keep(m, t) ==
    IF m.reg_state = "idle" \/ m.reg_state = "denied"
    THEN IF m.timestamp = 0 THEN [m EXCEPT !.timestamp = t] ELSE m
    ELSE m

\* Mutant: every idle/denied notification stamps the time anew.
modem_registration_changed_overwrite(m, t) ==
    IF m.reg_state = "idle" \/ m.reg_state = "denied"
    THEN [m EXCEPT !.timestamp = t]
    ELSE [m EXCEPT !.timestamp = 0]

\* Mutant: a modem found registered has its kick cancelled.
modem_registration_changed_cancel(m, t) ==
    IF m.reg_state = "idle" \/ m.reg_state = "denied"
    THEN IF m.timestamp = 0 THEN [m EXCEPT !.timestamp = t] ELSE m
    ELSE [modem_context_cancel_op(m) EXCEPT !.timestamp = 0]

\* modem_registration_changed, run with the registration state the proxy reports.
modem_registration_changed(m, t) ==
    IF m.reg_state = "idle" \/ m.reg_state = "denied"
    THEN IF m.timestamp = 0 THEN [m EXCEPT !.timestamp = t] ELSE m
    ELSE [m EXCEPT !.timestamp = 0]

\* ------------------------------------------------------- kick state machine

\* g_timeout_add_seconds: a new source, with an id no pending source has.
NewSourceId(m) == CHOOSE i \in 1..(Cardinality(m.timers) + 1) :
                      /\ i \notin m.timers
                      /\ \A j \in 1..(i - 1) : j \in m.timers

\* Mutant: no assertion, the source is added whatever next_id holds.
modem_schedule_op_state_noassert(m, new_state) ==
    LET m1 == [m EXCEPT !.op_state = new_state]
        id == NewSourceId(m1)
    IN [m1 EXCEPT !.next_id = id, !.timers = @ \cup {id}]

\* modem_schedule_op_state: g_assert (next_id == 0) aborts the process.
modem_schedule_op_state(m, new_state) ==
    LET m1 == [m EXCEPT !.op_state = new_state]
    IN IF m1.next_id # 0
       THEN [m1 EXCEPT !.abort = TRUE]
       ELSE LET id == NewSourceId(m1)
            IN [m1 EXCEPT !.next_id = id, !.timers = @ \cup {id}]

\* Mutant: gives up when the counter reaches the limit, one failure early.
modem_schedule_retry_op_state_early(m) ==
    LET m1 == [m EXCEPT !.tries = @ + 1]
    IN IF m1.tries >= MAX_TRIES
       THEN modem_schedule_op_state(m1, MODEM_OP_STATE_FINISH)
       ELSE modem_schedule_op_state(m1, m1.op_state)

\* modem_schedule_retry_op_state
modem_schedule_retry_op_state(m) ==
    LET m1 == [m EXCEPT !.tries = @ + 1]
    IN IF m1.tries > MAX_TRIES
       THEN modem_schedule_op_state(m1, MODEM_OP_STATE_FINISH)
       ELSE modem_schedule_op_state(m1, m1.op_state)

\* Mutant: the counter starts again with the next step.
modem_disable_ready_reset(m, ok) ==
    IF ~ok THEN modem_schedule_retry_op_state(m)
    ELSE modem_schedule_op_state([m EXCEPT !.tries = 0], MODEM_OP_STATE_LOW_POWER)

\* Mutant: a successful disable goes on to enable at once.
modem_disable_ready_skip(m, ok) ==
    IF ~ok THEN modem_schedule_retry_op_state(m)
    ELSE modem_schedule_op_state(m, MODEM_OP_STATE_ENABLE)

\* modem_disable_ready, up to its g_object_unref
modem_disable_ready(m, ok) ==
    IF ~ok THEN modem_schedule_retry_op_state(m)
    ELSE modem_schedule_op_state(m, MODEM_OP_STATE_LOW_POWER)

\* set_power_state_low_ready, up to its g_object_unref
set_power_state_low_ready(m, ok) ==
    IF ~ok THEN modem_schedule_retry_op_state(m)
    ELSE modem_schedule_op_state(m, MODEM_OP_STATE_ENABLE)

\* modem_enable_ready, up to its g_object_unref
modem_enable_ready(m, ok) ==
    IF ~ok THEN modem_schedule_retry_op_state(m)
    ELSE modem_schedule_op_state(m, MODEM_OP_STATE_FINISH)

\* The GAsyncReadyCallback given to each external call.
ReadyCallback(m, kind, ok) ==
    CASE kind = "disable" -> modem_disable_ready(m, ok)
      [] kind = "low_power" -> set_power_state_low_ready(m, ok)
      [] kind = "enable" -> modem_enable_ready(m, ok)

\* mm_modem_disable / mm_modem_set_power_state / mm_modem_enable with the
\* context's cancellable: one more call in flight, holding a reference.
IssueCall(m, kind) ==
    [m EXCEPT !.calls[kind][IF m.cancellable THEN "cur" ELSE "null"] = @ + 1,
              !.issued = @ + 1]

\* Mutant: finish leaves the operation in place.
modem_op_state_run_keep(m) ==
    LET m1 == [m EXCEPT !.next_id = 0]
    IN CASE m1.op_state = MODEM_OP_STATE_NONE ->
                modem_schedule_op_state(m1, MODEM_OP_STATE_DISABLE)
         [] m1.op_state = MODEM_OP_STATE_DISABLE -> IssueCall(m1, "disable")
         [] m1.op_state = MODEM_OP_STATE_LOW_POWER -> IssueCall(m1, "low_power")
         [] m1.op_state = MODEM_OP_STATE_ENABLE -> IssueCall(m1, "enable")
         [] m1.op_state = MODEM_OP_STATE_FINISH -> m1

\* modem_op_state_run
modem_op_state_run(m) ==
    LET m1 == [m EXCEPT !.next_id = 0]
    IN CASE m1.op_state = MODEM_OP_STATE_NONE ->
                modem_schedule_op_state(m1, MODEM_OP_STATE_DISABLE)
         [] m1.op_state = MODEM_OP_STATE_DISABLE -> IssueCall(m1, "disable")
         [] m1.op_state = MODEM_OP_STATE_LOW_POWER -> IssueCall(m1, "low_power")
         [] m1.op_state = MODEM_OP_STATE_ENABLE -> IssueCall(m1, "enable")
         [] m1.op_state = MODEM_OP_STATE_FINISH -> modem_context_cancel_op(m1)

\* Mutant: kicks as soon as the interval has elapsed.
ShouldKick_ge(m, t) == m.timestamp # 0 /\ t - m.timestamp >= KickInterval

\* The body of reset_poll_cb's loop for one tracked modem, at time t.
ShouldKick(m, t) == m.timestamp # 0 /\ t - m.timestamp > KickInterval

reset_poll_one(m, t) ==
    IF ShouldKick(m, t)
    THEN LET m1 == modem_context_cancel_op(m)
             m2 == [m1 EXCEPT !.cancellable = TRUE]
         IN modem_op_state_run(m2)
    ELSE m

\* handle_object_added, for the object itself: rejected, or given a context
\* seeded by one call of modem_registration_changed.
\* Mutant: the primary port is not asked for.
Eligible_lax(ifaces) == ifaces \in {"ok", "no_port"}

Eligible(ifaces) == ifaces = "ok"

handle_object_added_obj(m, ifaces, t) ==
    IF ~Eligible(ifaces) THEN m
    ELSE modem_registration_changed(modem_context_new(m), t)

\* g_object_unref reaching zero: the object is finalized, which frees its context.
Finalize(m) == IF m.ctx THEN [Blank EXCEPT !.timers = modem_context_free(m).timers]
               ELSE Blank

Collect(o, reg, mgr, m) == IF RefCount(o, reg, mgr, m) = 0 THEN Finalize(m) ELSE m

\* ------------------------------------------------------------------- state

Ev(op, o, arg) == [op |-> op, obj |-> o, arg |-> arg]

InitWith(P) ==
    /\ exposed = P
    /\ phase = "bus_get"
    /\ owner \in BOOLEAN
    /\ mm = "null"
    /\ mm_objs = {}
    /\ modems = [p \in Paths |-> NoObj]
    /\ objs = [o \in Obj |-> Blank]
    /\ now = 1
    /\ event = Ev("main", NoObj, "")

\* The daemon beside a service with any of the modems, and beside one that
\* only ever has a single modem.
Init == InitWith(Paths)

InitOne == \E p \in Paths : InitWith({p})

Aborted(os) == \E o \in Obj : os[o].abort

\* What every callback ends with: objects nobody references any more are
\* finalized, and a failed g_assert has ended the process.
Settle(os, reg, mgr) ==
    /\ objs' = IF Aborted(os) THEN os
               ELSE [o \in Obj |-> Collect(o, reg, mgr, os[o])]
    /\ phase' = IF Aborted(os) THEN "aborted" ELSE phase

EmptyRegistry == [p \in Paths |-> NoObj]

Values(reg) == {reg[p] : p \in Paths} \ {NoObj}

\* Mutant: the registry is left as it is.
context_clear_modems_keep(reg) == reg

\* context_clear_modems: g_hash_table_remove_all
context_clear_modems(reg) == EmptyRegistry

\* context_clear_manager: the signals are disconnected, the proxy is dropped,
\* then context_clear_modems.
context_clear_manager(reg) == context_clear_modems(reg)

\* ----------------------------------------------------------------- startup

\* bus_get_ready: no connection quits the main loop, a connection starts
\* ensure_manager (mm_manager_new in flight).
bus_get_ready ==
    /\ phase = "bus_get"
    /\ \E ok \in BOOLEAN :
        /\ phase' = IF ok THEN "running" ELSE "quit"
        /\ mm' = IF ok THEN "pending" ELSE mm
        /\ event' = Ev("bus_get_ready", NoObj, IF ok THEN "ok" ELSE "error")
    /\ UNCHANGED <<owner, mm_objs, modems, objs, now, exposed>>

\* term_handler, then context_free as main returns.
term_handler ==
    /\ phase \in {"bus_get", "running"}
    /\ phase' = "quit"
    /\ mm' = "null"
    /\ mm_objs' = {}
    /\ modems' = EmptyRegistry
    /\ objs' = [o \in Obj |-> Blank]
    /\ event' = Ev("term_handler", NoObj, "")
    /\ UNCHANGED <<owner, now, exposed>>

\* -------------------------------------------------------- service supervisor

\* An object exists while somebody references it.
Live(o) == RefCount(o, Tracked, mm_objs, objs[o]) > 0

\* The objects of an inventory or of an object-added signal are new ones: the
\* first free slot of the path.
HasFree(p) == \E i \in 1..MaxLive : ~Live(<<p, i>>)
NewObj(p) == <<p, CHOOSE i \in 1..MaxLive :
                     ~Live(<<p, i>>) /\ \A j \in 1..(i - 1) : Live(<<p, j>>)>>

\* A new object reporting some registration state.
Fresh(reg) == [Blank EXCEPT !.reg_state = reg]

\* handle_object_added on a registry: an eligible object is inserted under its
\* path (g_hash_table_insert drops the reference of a value it replaces).
handle_object_added_reg(reg, o, ifaces) ==
    IF Eligible(ifaces) THEN [reg EXCEPT ![PathOf(o)] = o] ELSE reg

\* The service's bus name gets or loses its owner.  With a manager proxy in
\* place, handle_name_owner_changed runs: without an owner context_clear_modems,
\* with one context_clear_manager and ensure_manager.  The proxy lets go of its
\* objects in both cases.  Without a proxy (ctx->mm NULL) nobody is told.
name_owner_changed ==
    /\ phase = "running"
    /\ owner' = ~owner
    /\ IF mm = "ready"
       THEN /\ mm' = IF owner' THEN "pending" ELSE "ready"
            /\ mm_objs' = {}
            /\ modems' = IF owner' THEN context_clear_manager(modems)
                          ELSE context_clear_modems(modems)
            /\ Settle(objs, Values(modems'), {})
            /\ event' = Ev("handle_name_owner_changed", NoObj,
                           IF owner' THEN "present" ELSE "absent")
       ELSE /\ UNCHANGED <<phase, mm, mm_objs, modems, objs>>
            /\ event' = Ev("name_owner_unobserved", NoObj,
                           IF owner' THEN "present" ELSE "absent")
    /\ UNCHANGED <<now, exposed>>

\* modem_manager_new_cb with an error: ctx->mm stays NULL, no signal is connected.
modem_manager_new_cb_error ==
    /\ phase = "running"
    /\ mm = "pending"
    /\ mm' = "null"
    /\ event' = Ev("modem_manager_new_cb", NoObj, "error")
    /\ UNCHANGED <<phase, owner, mm_objs, modems, objs, now, exposed>>

\* mm_available: handle_object_added for each object of the proxy, here the new
\* objects of the paths S, exposing kind[p] and reporting reg[p].
mm_available_objs(os, S, kind, reg, t) ==
    [o \in Obj |-> IF PathOf(o) \in S /\ o = NewObj(PathOf(o))
                   THEN handle_object_added_obj(Fresh(reg[PathOf(o)]), kind[PathOf(o)], t)
                   ELSE os[o]]

mm_available_reg(r, S, kind) ==
    [p \in Paths |-> IF p \in S
                     THEN handle_object_added_reg(r, NewObj(p), kind[p])[p]
                     ELSE r[p]]

\* modem_manager_new_cb with a proxy: the signals are connected and
\* check_name_owner runs mm_available over the proxy's objects when the name
\* has an owner.
modem_manager_new_cb_ok ==
    /\ phase = "running"
    /\ mm = "pending"
    /\ mm' = "ready"
    /\ \E S \in SUBSET {p \in exposed : HasFree(p)} :
       \E kind \in [S -> Ifaces] : \E reg \in [S -> RegStates] :
        /\ owner \/ S = {}
        /\ \A p \in S : kind[p] = "ok" \/ reg[p] = "home"
        /\ mm_objs' = {NewObj(p) : p \in S}
        /\ modems' = mm_available_reg(modems, S, kind)
        /\ Settle(mm_available_objs(objs, S, kind, reg, now), Values(modems'), mm_objs')
    /\ event' = Ev("modem_manager_new_cb", NoObj, IF owner THEN "present" ELSE "absent")
    /\ UNCHANGED <<owner, now, exposed>>

\* object-added signal -> handle_object_added
object_added ==
    /\ phase = "running"
    /\ mm = "ready"
    /\ owner
    /\ \E p \in exposed : \E kind \in Ifaces : \E reg \in RegStates :
        /\ HasFree(p)
        /\ \A o \in mm_objs : PathOf(o) # p
        /\ kind = "ok" \/ reg = "home"
        /\ LET o == NewObj(p)
               m == handle_object_added_obj(Fresh(reg), kind, now)
           IN /\ mm_objs' = mm_objs \cup {o}
              /\ modems' = handle_object_added_reg(modems, o, kind)
              /\ Settle([objs EXCEPT ![o] = m], Values(modems'), mm_objs')
              /\ event' = Ev("handle_object_added", o, kind)
    /\ UNCHANGED <<owner, mm, now, exposed>>

\* What a kick has pending for an object: a timer, calls in flight, both, none.
KickActivity(m) ==
    CASE m.next_id # 0 /\ NCalls(m) > 0 -> "timer+call"
      [] m.next_id # 0 /\ NCalls(m) = 0 -> "timer"
      [] m.next_id = 0 /\ NCalls(m) > 0 -> "call"
      [] OTHER -> "none"

\* handle_object_removed on a registry: g_hash_table_remove by path.
handle_object_removed_reg(reg, o) == [reg EXCEPT ![PathOf(o)] = NoObj]

\* object-removed signal -> handle_object_removed; the proxy then drops the object.
object_removed ==
    /\ phase = "running"
    /\ mm = "ready"
    /\ \E o \in mm_objs :
        /\ mm_objs' = mm_objs \ {o}
        /\ modems' = handle_object_removed_reg(modems, o)
        /\ Settle(objs, Values(modems'), mm_objs')
        /\ event' = Ev("handle_object_removed", o, KickActivity(objs[o]))
    /\ UNCHANGED <<owner, mm, now, exposed>>

\* ------------------------------------------------------ registration monitor

\* notify::registration-state on an object carrying a context.
registration_changed ==
    /\ phase = "running"
    /\ \E o \in mm_objs : \E s \in RegStates :
        /\ objs[o].ctx
        /\ objs' = [objs EXCEPT ![o] =
                      modem_registration_changed([@ EXCEPT !.reg_state = s], now)]
        /\ event' = Ev("modem_registration_changed", o, s)
    /\ UNCHANGED <<phase, owner, mm, mm_objs, modems, now, exposed>>

\* --------------------------------------------------------------- the sweep

\* reset_poll_cb: one pass over ctx->modems.
reset_poll_cb ==
    /\ phase = "running"
    /\ LET os == [o \in Obj |-> IF o \in Tracked THEN reset_poll_one(objs[o], now)
                                ELSE objs[o]]
       IN Settle(os, Tracked, mm_objs)
    /\ event' = Ev("reset_poll_cb", NoObj, "")
    /\ UNCHANGED <<owner, mm, mm_objs, modems, now, exposed>>

\* ------------------------------------------------------- kick state machine

\* A kick timer is dispatched: modem_op_state_run, a one-shot source.  Sources
\* of one priority are dispatched in the order they were attached, and a 10 s
\* timer is attached after modem_context_cancel_op has removed the one before
\* it and cancelled the calls in flight: the completion of a cancelled call is
\* dispatched before the timer.
timer_fired ==
    /\ phase = "running"
    /\ \E o \in Obj : \E id \in objs[o].timers :
        /\ objs[o].ctx
        /\ NStale(objs[o]) = 0
        /\ LET m == modem_op_state_run(g_source_remove(objs[o], id))
           IN /\ Settle([objs EXCEPT ![o] = m], Tracked, mm_objs)
              /\ event' = Ev("modem_op_state_run", o, objs[o].op_state)
    /\ UNCHANGED <<owner, mm, mm_objs, modems, now, exposed>>

\* An external call completes: its ready callback runs, then drops the
\* reference the call held.  A call whose cancellable was cancelled completes
\* with G_IO_ERROR_CANCELLED.
call_ready ==
    /\ phase = "running"
    /\ \E o \in Obj : \E c \in CallTypes : \E ok \in BOOLEAN :
        /\ objs[o].calls[c.kind][c.tok] > 0
        /\ c.tok = "old" => ~ok
        /\ LET m1 == ReadyCallback(objs[o], c.kind, ok)
               m2 == IF m1.abort THEN m1 ELSE [m1 EXCEPT !.calls[c.kind][c.tok] = @ - 1]
           IN /\ Settle([objs EXCEPT ![o] = m2], Tracked, mm_objs)
              /\ event' = Ev(c.kind \o "_ready", o,
                             IF c.tok = "old" THEN "cancelled"
                             ELSE IF ok THEN "ok" ELSE "error")
    /\ UNCHANGED <<owner, mm, mm_objs, modems, now, exposed>>

\* ------------------------------------------------------------------ the clock

Fine == (now - 1) % KickInterval
Coarse == (now - 1) \div KickInterval

clock ==
    /\ phase = "running"
    /\ \/ Fine < MaxFine /\ now' = now + 1
       \/ Coarse < MaxCoarse /\ now' = now + KickInterval
    /\ event' = Ev("clock", NoObj, "")
    /\ UNCHANGED <<phase, owner, mm, mm_objs, modems, objs, exposed>>

Next ==
    \/ bus_get_ready
    \/ term_handler
    \/ name_owner_changed
    \/ modem_manager_new_cb_error
    \/ modem_manager_new_cb_ok
    \/ object_added
    \/ object_removed
    \/ registration_changed
    \/ reset_poll_cb
    \/ timer_fired
    \/ call_ready
    \/ clock

Spec == Init /\ [][Next]_vars

\* The main loop dispatches every source that is ready: each armed timer of an
\* object fires and each call in flight completes, unless the process has ended.
FairSpec ==
    /\ InitOne /\ [][Next]_vars
    /\ \A o \in Obj : WF_vars(timer_fired /\ event'.obj = o)
    /\ \A o \in Obj : WF_vars(call_ready /\ event'.obj = o)

\* ------------------------------------------------------------------ claims

Stuck(m) == m.reg_state \in {"idle", "denied"}

\* C1: for every tracked modem the timestamp is non-zero exactly when the
\* registration state last observed (at the add, then at each notification) is
\* idle or denied, and only a registration notification changes the timestamp
\* of an existing context.
C1_StuckSinceIffIdleOrDenied ==
    /\ [](\A o \in Tracked : (objs[o].timestamp # 0) <=> Stuck(objs[o]))
    /\ [][\A o \in Obj :
            (objs[o].ctx /\ objs'[o].ctx /\ objs'[o].timestamp # objs[o].timestamp)
            => event'.op = "modem_registration_changed" /\ event'.obj = o]_vars

\* C1 witness: a tracked modem a notification has just found idle, with a timestamp.
C1_Witness ==
    \E o \in Tracked :
        /\ event = Ev("modem_registration_changed", o, "idle")
        /\ objs[o].timestamp = now

\* C2: the assertion next_id == 0 of modem_schedule_op_state never fails, so
\* the process never aborts on it.
C2_AssertionNeverFails == phase # "aborted"

\* C3: the completion callback of a call cancelled by a sweep that started a
\* fresh kick changes neither step, retry counter nor pending timer of the modem.
C3_CancelledCallbackIsNoop ==
    [][\A o \in Obj : \A k \in CallKinds :
         (o \in Tracked /\ objs[o].cancellable
            /\ event' = Ev(k \o "_ready", o, "cancelled"))
         => /\ phase' = phase
            /\ objs'[o].op_state = objs[o].op_state
            /\ objs'[o].tries = objs[o].tries
            /\ objs'[o].next_id = objs[o].next_id
            /\ objs'[o].timers = objs[o].timers]_vars

\* C4: a failed call of a kick that runs alone (no timer pending, no other call
\* in flight) increments the retry counter; up to a counter of 3 the same step
\* is re-armed, the failure that makes it 4 arms finish; no call is issued by
\* the callback.  Running finish removes the operation (step none, counter 0,
\* no timer) and issues no call.
C4_FourFailuresFinish ==
    /\ [][\A o \in Obj : \A k \in CallKinds :
            (event' = Ev(k \o "_ready", o, "error")
               /\ objs[o].next_id = 0 /\ NCalls(objs[o]) = 1 /\ Live(o)')
            => /\ phase' = phase
               /\ objs'[o].tries = objs[o].tries + 1
               /\ objs'[o].tries <= MAX_TRIES + 1
               /\ objs'[o].op_state = IF objs'[o].tries <= MAX_TRIES
                                      THEN objs[o].op_state
                                      ELSE MODEM_OP_STATE_FINISH
               /\ objs'[o].next_id # 0
               /\ objs'[o].timers = {objs'[o].next_id}
               /\ NCalls(objs'[o]) = 0]_vars
    /\ [][\A o \in Obj :
            event' = Ev("modem_op_state_run", o, MODEM_OP_STATE_FINISH)
            => /\ objs'[o].op_state = MODEM_OP_STATE_NONE
               /\ objs'[o].tries = 0
               /\ objs'[o].next_id = 0
               /\ objs'[o].timers = {}
               /\ ~objs'[o].cancellable
               /\ NCalls(objs'[o]) = NCalls(objs[o])]_vars

\* C4 witness: the fourth failed disable has armed finish.
C4_Witness ==
    \E o \in Tracked :
        /\ event = Ev("disable_ready", o, "error")
        /\ objs[o].tries = 4
        /\ objs[o].op_state = MODEM_OP_STATE_FINISH
        /\ objs[o].next_id # 0

RemovalWithoutCallFinalizes ==
    /\ [][\A o \in Obj :
            event' = Ev("handle_object_removed", o, "timer")
            => objs'[o] = Blank /\ modems'[PathOf(o)] = NoObj]_vars
    /\ [](\A o \in Obj : objs[o].timers # {} => objs[o].ctx /\ Live(o))
    /\ [][\A o \in Obj :
            (objs[o] = Blank /\ objs'[o] # Blank)
            => event'.op \in {"handle_object_added", "modem_manager_new_cb"}]_vars
    /\ [][\A p \in Paths :
            (modems[p] = NoObj /\ modems'[p] # NoObj)
            => event'.op \in {"handle_object_added", "modem_manager_new_cb"}]_vars

\* C6: after modem_manager_new_cb got an error, the next time the service's name
\* gets an owner the proxy construction is started again.
C6_ConstructionRetried ==
    [][(phase = "running" /\ mm = "null" /\ ~owner /\ owner') => mm' = "pending"]_vars

\* C7: while the proxy is being rebuilt the registry is empty, and the inventory
\* of the rebuilt proxy leaves in the registry exactly the objects of that
\* inventory that got a context; each is a new object whose context has no kick
\* and a timestamp seeded from its registration state.
FreshContext(m, t) ==
    /\ m.ctx
    /\ m.op_state = MODEM_OP_STATE_NONE
    /\ m.next_id = 0 /\ m.timers = {}
    /\ m.tries = 0
    /\ ~m.cancellable
    /\ NCalls(m) = 0
    /\ m.timestamp = IF Stuck(m) THEN t ELSE 0

C7_BounceKeepsOnlyInventory ==
    /\ [](mm # "ready" => Tracked = {})
    /\ [][(mm = "pending" /\ mm' = "ready")
            => /\ Tracked' = {o \in mm_objs' : objs'[o].ctx}
               /\ \A o \in mm_objs' : ~Live(o)
               /\ \A o \in Tracked' : FreshContext(objs'[o], now)
               /\ ~owner => mm_objs' = {}]_vars

\* C7 witness: the inventory of a rebuilt proxy has just tracked a new modem
\* while an object of the proxy before it is still alive, and not tracked.
C7_Witness ==
    /\ event = Ev("modem_manager_new_cb", NoObj, "present")
    /\ Tracked # {}
    /\ \E o \in Obj : Live(o) /\ o \notin mm_objs /\ o \notin Tracked /\ objs[o].ctx

\* C8: the sweep kicks a tracked modem exactly when its timestamp is set and
\* more than the kick interval old; a kicked modem has step disable armed, any
\* other modem is left as it was.
C8_SweepKicksStrictlyAfterInterval ==
    [][event' = Ev("reset_poll_cb", NoObj, "")
         => \A o \in Tracked :
              IF objs[o].timestamp # 0 /\ now - objs[o].timestamp > KickInterval
              THEN /\ objs'[o].op_state = MODEM_OP_STATE_DISABLE
                   /\ objs'[o].next_id # 0
                   /\ objs'[o].tries = 0
                   /\ objs'[o].cancellable
                   /\ objs'[o].timestamp = objs[o].timestamp
              ELSE objs'[o] = objs[o]]_vars

\* C8 witness: a sweep has just run over a modem stuck for exactly the kick
\* interval and started nothing.
C8_Witness ==
    \E o \in Tracked :
        /\ event = Ev("reset_poll_cb", NoObj, "")
        /\ objs[o].timestamp # 0
        /\ now - objs[o].timestamp = KickInterval
        /\ objs[o].op_state = MODEM_OP_STATE_NONE
        /\ objs[o].next_id = 0

\* C9: a notification of idle or denied that follows another state sets the
\* timestamp to the time of that notification.
C9_SecondIdlePeriodIsFresh ==
    [][\A o \in Obj : \A s \in {"idle", "denied"} :
         (event' = Ev("modem_registration_changed", o, s) /\ objs[o].ctx
            /\ ~Stuck(objs[o]))
         => objs'[o].timestamp = now]_vars

\* C9 witness: a modem added at time 1 has just been found idle at a later time.
C9_Witness ==
    \E o \in Tracked :
        /\ event = Ev("modem_registration_changed", o, "idle")
        /\ now > 2
        /\ objs[o].timestamp = now

\* C10: a modem has at most one kick timer pending, the one next_id names.
C10_AtMostOneTimer ==
    \A o \in Obj :
        /\ Cardinality(objs[o].timers) <= 1
        /\ objs[o].next_id # 0 => objs[o].timers = {objs[o].next_id}
        /\ objs[o].next_id = 0 => objs[o].timers = {}

\* C10 witness: a failed call has re-armed the step of a kick: one timer.
C10_Witness ==
    \E o \in Obj :
        /\ event = Ev("disable_ready", o, "error")
        /\ phase = "running"
        /\ Cardinality(objs[o].timers) = 1

\* The step whose timer issues a call of some kind.
StepOf(kind) ==
    CASE kind = "disable" -> MODEM_OP_STATE_DISABLE
      [] kind = "low_power" -> MODEM_OP_STATE_LOW_POWER
      [] kind = "enable" -> MODEM_OP_STATE_ENABLE

\* The calls in flight issued with the cancellable in place (or with none).
NActive(m) == NCalls(m) - NStale(m)

\* C11: the steps of a kick run in sequence.  A call is issued only by the timer
\* of its own step, with no other call of the modem in flight; the step becomes
\* low-power only in the callback of a successful disable, enable only in the
\* callback of a successful low-power, disable only in a sweep, finish only in
\* a callback, none only when finish runs.  A modem never has a timer pending
\* together with a call of its kick in flight, nor two calls in flight.
C11_StepsInSequence ==
    /\ [][\A o \in Obj : \A k \in CallKinds :
            NCallsOf(objs'[o], k) > NCallsOf(objs[o], k)
            => /\ event' = Ev("modem_op_state_run", o, StepOf(k))
               /\ objs[o].op_state = StepOf(k)
               /\ objs'[o].op_state = StepOf(k)
               /\ NCalls(objs[o]) = 0
               /\ NCalls(objs'[o]) = 1]_vars
    /\ [][\A o \in Obj :
            (objs[o].ctx /\ objs'[o].ctx /\ objs'[o].op_state # objs[o].op_state)
            => CASE objs'[o].op_state = MODEM_OP_STATE_DISABLE ->
                      event' = Ev("reset_poll_cb", NoObj, "")
                 [] objs'[o].op_state = MODEM_OP_STATE_LOW_POWER ->
                      /\ event' = Ev("disable_ready", o, "ok")
                      /\ objs[o].op_state = MODEM_OP_STATE_DISABLE
                 [] objs'[o].op_state = MODEM_OP_STATE_ENABLE ->
                      /\ event' = Ev("low_power_ready", o, "ok")
                      /\ objs[o].op_state = MODEM_OP_STATE_LOW_POWER
                 [] objs'[o].op_state = MODEM_OP_STATE_FINISH ->
                      \/ /\ event' = Ev("enable_ready", o, "ok")
                         /\ objs[o].op_state = MODEM_OP_STATE_ENABLE
                      \/ \E k \in CallKinds :
                            /\ event' = Ev(k \o "_ready", o, "error")
                            /\ objs[o].op_state = StepOf(k)
                 [] objs'[o].op_state = MODEM_OP_STATE_NONE ->
                      event' = Ev("modem_op_state_run", o, MODEM_OP_STATE_FINISH)]_vars
    /\ [](\A o \in Obj :
            /\ ~(objs[o].next_id # 0 /\ NActive(objs[o]) > 0)
            /\ NCalls(objs[o]) <= 1)

\* C11 witness: the third step of a kick whose disable and low-power succeeded
\* at once: its timer has just issued enable, the third call of the kick.
C11_Witness ==
    \E o \in Tracked :
        /\ event = Ev("modem_op_state_run", o, MODEM_OP_STATE_ENABLE)
        /\ objs[o].calls["enable"]["cur"] = 1
        /\ objs[o].issued = 3
        /\ objs[o].tries = 0
        /\ objs[o].next_id = 0

\* C12: the retry counter counts the failed calls of the whole operation.  A
\* successful call leaves it as it is, a failed call of any step adds one and,
\* once it exceeds 3, arms finish instead of the step; so a kick has at most 4
\* failed calls and issues at most 6 calls.
C12_CounterSpansSteps ==
    /\ [][\A o \in Obj : \A k \in CallKinds :
            (event' = Ev(k \o "_ready", o, "ok") /\ objs'[o].ctx)
            => /\ objs'[o].tries = objs[o].tries
               /\ objs'[o].issued = objs[o].issued]_vars
    /\ [][\A o \in Obj : \A k \in CallKinds :
            (event' = Ev(k \o "_ready", o, "error") /\ objs'[o].ctx)
            => /\ objs'[o].tries = objs[o].tries + 1
               /\ objs'[o].issued = objs[o].issued
               /\ objs'[o].op_state = IF objs'[o].tries > MAX_TRIES
                                      THEN MODEM_OP_STATE_FINISH
                                      ELSE StepOf(k)]_vars
    /\ [](\A o \in Obj :
            /\ objs[o].tries <= MAX_TRIES + 1
            /\ objs[o].issued <= MAX_TRIES + 3
            /\ objs[o].op_state = MODEM_OP_STATE_ENABLE => objs[o].issued >= 2)

\* C12 witness: a kick on its second step is forced to finish by the fourth
\* failure, after one successful disable and five calls, enable never issued.
C12_Witness ==
    \E o \in Tracked :
        /\ event = Ev("low_power_ready", o, "error")
        /\ objs[o].tries = 4
        /\ objs[o].issued = 5
        /\ objs[o].op_state = MODEM_OP_STATE_FINISH

\* A kick that issued six calls: three failures spread over the steps, then a
\* successful enable.
SixCalls ==
    \E o \in Tracked :
        /\ event = Ev("enable_ready", o, "ok")
        /\ objs[o].issued = 6

\* C13: a sweep that kicks a modem cancels what was there and starts afresh:
\* right after it the modem has step disable armed behind exactly one timer,
\* counter 0 and a new cancellable no call in flight was issued with; the sweep
\* issues no call, ends no process and leaves the registry as it was.
C13_SweepStartsFreshKick ==
    [][event' = Ev("reset_poll_cb", NoObj, "")
         => /\ modems' = modems
            /\ phase' = phase
            /\ \A o \in Obj : NCalls(objs'[o]) = NCalls(objs[o])
            /\ \A o \in Tracked :
                 ShouldKick(objs[o], now)
                 => /\ objs'[o].op_state = MODEM_OP_STATE_DISABLE
                    /\ objs'[o].next_id # 0
                    /\ objs'[o].timers = {objs'[o].next_id}
                    /\ objs'[o].tries = 0
                    /\ objs'[o].issued = 0
                    /\ objs'[o].cancellable
                    /\ NActive(objs'[o]) = 0
                    /\ NStale(objs'[o]) = NCalls(objs[o])]_vars

\* C13 witness: a sweep has just kicked a modem whose kick before had its
\* disable call in flight: that call is cancelled, a new first step is armed.
C13_Witness ==
    \E o \in Tracked :
        /\ event = Ev("reset_poll_cb", NoObj, "")
        /\ objs[o].calls["disable"]["old"] = 1
        /\ objs[o].op_state = MODEM_OP_STATE_DISABLE
        /\ Cardinality(objs[o].timers) = 1
        /\ objs[o].tries = 0

\* No kick operation in place: what modem_context_cancel_op leaves.
Released(m) ==
    /\ m.op_state = MODEM_OP_STATE_NONE
    /\ m.tries = 0
    /\ m.next_id = 0 /\ m.timers = {}
    /\ ~m.cancellable
    /\ NActive(m) = 0

\* A sweep has just replaced the kick of o by a fresh one.
Superseded(o) ==
    /\ event = Ev("reset_poll_cb", NoObj, "")
    /\ o \in Tracked
    /\ objs[o].op_state = MODEM_OP_STATE_DISABLE
    /\ objs[o].issued = 0 /\ objs[o].tries = 0
    /\ NActive(objs[o]) = 0

C15_CompletionAfterRemoval ==
    /\ [][\A o \in Obj :
            (event'.op \in {k \o "_ready" : k \in CallKinds} /\ event'.obj = o
               /\ o \notin Tracked /\ phase' # "aborted")
            => /\ objs'[o] = Blank
               /\ modems' = modems
               /\ \A o2 \in Obj \ {o} : objs'[o2] = objs[o2]]_vars
    /\ [][event'.op = "modem_op_state_run"
            => event'.obj \in Tracked /\ modems' = modems]_vars

\* C15 witness: the disable call of a kick has just failed for a modem removed
\* while the call was in flight; nothing is left of the modem.
C15_Witness ==
    \E o \in Obj :
        /\ event = Ev("disable_ready", o, "error")
        /\ phase = "running"
        /\ mm = "ready" /\ owner
        /\ modems[PathOf(o)] = NoObj
        /\ objs[o] = Blank

\* C16: when the service's name loses its owner the registry is emptied and
\* the proxy lets go of its objects: every object without a call in flight is
\* finalized, context, timer and all.  While the service is absent the
\* registry stays empty, no timer runs and no call is issued; an entry appears
\* again only with an add event or an inventory of the service present.
C16_AbsentServiceClearsRegistry ==
    /\ [][event' = Ev("handle_name_owner_changed", NoObj, "absent")
            => /\ Tracked' = {}
               /\ mm_objs' = {}
               /\ \A o \in Obj : IF NCalls(objs[o]) = 0 THEN objs'[o] = Blank
                                  ELSE objs'[o] = objs[o]]_vars
    /\ [](~owner => Tracked = {})
    /\ [][~owner' => /\ event'.op # "modem_op_state_run"
                      /\ \A o \in Obj : NCalls(objs'[o]) <= NCalls(objs[o])]_vars
    /\ [][\A p \in Paths :
            (modems[p] = NoObj /\ modems'[p] # NoObj)
            => /\ owner'
               /\ event'.op \in {"handle_object_added", "modem_manager_new_cb"}]_vars

\* C16 witness: the service has just gone while a modem had a call of its kick
\* in flight: the registry is empty, the object is kept alive by its call.
C16_Witness ==
    /\ event = Ev("handle_name_owner_changed", NoObj, "absent")
    /\ Tracked = {}
    /\ \E o \in Obj : objs[o].ctx /\ NActive(objs[o]) = 1
                       /\ objs[o].op_state # MODEM_OP_STATE_NONE

\* C17: a notification of idle or denied for a modem whose timestamp is set
\* leaves the timestamp as it is; through any step that finds or leaves the
\* modem idle/denied the timestamp stays that of the first observation.
C17_RepeatedIdleKeepsTimestamp ==
    /\ [][\A o \in Obj : \A s \in {"idle", "denied"} :
            (event' = Ev("modem_registration_changed", o, s) /\ objs[o].timestamp # 0)
            => objs'[o].timestamp = objs[o].timestamp]_vars
    /\ [][\A o \in Obj :
            (objs[o].ctx /\ objs'[o].ctx /\ Stuck(objs[o]) /\ Stuck(objs'[o]))
            => objs'[o].timestamp = objs[o].timestamp]_vars

\* C17 witness: a modem idle since time 1 has just been found denied later on.
C17_Witness ==
    \E o \in Tracked :
        /\ event = Ev("modem_registration_changed", o, "denied")
        /\ objs[o].timestamp = 1
        /\ now > KickInterval

\* C18: an object without the modem interface, without a primary port or
\* without the 3GPP interface gets no context and no registry entry, from an
\* add event and from an inventory alike; the registry and every other object
\* are left as they were.  An object without a context is never in the
\* registry, has no timestamp, no step, no timer and no call.
C18_IneligibleModemIgnored ==
    /\ [][\A o \in Obj : \A kind \in Ifaces \ {"ok"} :
            event' = Ev("handle_object_added", o, kind)
            => /\ modems' = modems
               /\ ~objs'[o].ctx
               /\ \A o2 \in Obj \ {o} : objs'[o2] = objs[o2]]_vars
    /\ [][event'.op = "modem_manager_new_cb"
            => /\ \A o \in mm_objs' : ~objs'[o].ctx => modems'[PathOf(o)] = modems[PathOf(o)]
               /\ \A o \in Obj \ mm_objs' : objs'[o] = objs[o]]_vars
    /\ [](\A o \in Obj :
            ~objs[o].ctx => /\ o \notin Tracked
                            /\ objs[o].timestamp = 0
                            /\ objs[o].op_state = MODEM_OP_STATE_NONE
                            /\ objs[o].timers = {}
                            /\ NCalls(objs[o]) = 0)

\* C18 witness: an add event for a modem without a primary port has just been
\* ignored while another modem is tracked, stuck and being kicked.
C18_Witness ==
    \E o \in Obj :
        /\ event = Ev("handle_object_added", o, "no_port")
        /\ o \in mm_objs
        /\ o \notin Tracked
        /\ \E o2 \in Tracked : objs[o2].op_state = MODEM_OP_STATE_DISABLE

\* C19: a registration notification changes the registration state seen and
\* the timestamp, nothing else: step, counter, timer, cancellable and calls of
\* the modem stay, and so do the registry and every other object.
C19_NotificationLeavesKickAlone ==
    [][\A o \in Obj :
         (event'.op = "modem_registration_changed" /\ event'.obj = o)
         => /\ objs'[o] = [objs[o] EXCEPT !.reg_state = event'.arg,
                                          !.timestamp = objs'[o].timestamp]
            /\ objs'[o].timestamp \in {0, objs[o].timestamp, now}
            /\ \A o2 \in Obj \ {o} : objs'[o2] = objs[o2]
            /\ modems' = modems]_vars

\* C19 witness: the timer of a kick has just issued disable for a modem that
\* has registered since the kick began.
C19_Witness ==
    \E o \in Tracked :
        /\ event = Ev("modem_op_state_run", o, MODEM_OP_STATE_DISABLE)
        /\ objs[o].reg_state = "home"
        /\ objs[o].timestamp = 0
        /\ objs[o].calls["disable"]["cur"] = 1

\* C20: no step of a kick touches the timestamp, so a tracked modem that is due
\* for a kick stays due until a registration notification or its removal, and
\* every sweep in between drops the kick in place and starts a fresh one, the
\* calls and failures of the old one forgotten.  Finish runs only for a kick
\* that has issued its three calls or used up its retries since it began.
C20_StuckModemKickedEverySweep ==
    /\ [][\A o \in Obj :
            (objs[o].ctx /\ objs'[o].ctx
               /\ event'.op \in {"reset_poll_cb", "modem_op_state_run"}
                                  \cup {k \o "_ready" : k \in CallKinds})
            => objs'[o].timestamp = objs[o].timestamp]_vars
    /\ [][\A o \in Tracked \cap Tracked' :
            (ShouldKick(objs[o], now)
               /\ ~(event'.op = "modem_registration_changed" /\ event'.obj = o))
            => ShouldKick(objs'[o], now')]_vars
    /\ [][event' = Ev("reset_poll_cb", NoObj, "")
            => \A o \in Tracked :
                 (ShouldKick(objs[o], now) /\ objs[o].op_state # MODEM_OP_STATE_NONE)
                 => /\ objs'[o].op_state = MODEM_OP_STATE_DISABLE
                    /\ objs'[o].tries = 0
                    /\ objs'[o].issued = 0
                    /\ NActive(objs'[o]) = 0
                    /\ ShouldKick(objs'[o], now')]_vars
    /\ [][\A o \in Obj :
            event' = Ev("modem_op_state_run", o, MODEM_OP_STATE_FINISH)
            => objs[o].issued >= 3 \/ objs[o].tries = MAX_TRIES + 1]_vars

\* C20 witness: a sweep has just superseded the kick of a modem still idle
\* or denied, a kick that had come as far as its low-power call.
C20_Witness ==
    \E o \in Tracked :
        /\ event = Ev("reset_poll_cb", NoObj, "")
        /\ Stuck(objs[o])
        /\ objs[o].calls["low_power"]["old"] = 1
        /\ objs[o].op_state = MODEM_OP_STATE_DISABLE
        /\ objs[o].issued = 0

TypeOK ==
    /\ phase \in {"bus_get", "running", "quit", "aborted"}
    /\ owner \in BOOLEAN
    /\ mm \in {"null", "pending", "ready"}
    /\ mm_objs \subseteq Obj
    /\ Tracked \subseteq mm_objs
    /\ \A o \in Obj : objs[o].op_state \in OpState /\ objs[o].reg_state \in RegStates

====
